---------------------------- MODULE Spec2Model ----------------------------
(***************************************************************************)
(* Model of src/src/idb.ts: the singleton IndexedDB connection manager     *)
(* (open, getSingletonDB), the promise bridges (request2promise,           *)
(* transaction2promise) and the three upsert strategies over the           *)
(* image_map store with its unique (row, col) index.                       *)
(*                                                                         *)
(* One action is one event-loop task: the engine event that is delivered,  *)
(* the listeners it runs and the promise continuations (microtasks) that   *)
(* run before the next task.                                               *)
(***************************************************************************)
EXTENDS Integers, Sequences, FiniteSets, TLC

(***************************************************************************)
(* Bounds of the model                                                     *)
(***************************************************************************)
\* callers of getSingletonDB that may run concurrently
NCallers == 2
\* engine handles (IDBDatabase objects) that may ever be opened
MaxHandles == 3

Callers == 1..NCallers
Handles == 1..MaxHandles

(***************************************************************************)
(* Connection manager state                                                *)
(***************************************************************************)
VARIABLES
    db,       \* the singleton `db` of getSingletonDB: 0 is undefined, else a handle
    state,    \* handle -> the `state` property set by open(): "NONE" before the handle exists
    live,     \* handle -> the engine connection is open (not closed, not lost)
    pc,       \* caller -> "idle" | "racing" | "resolved" | "rejected"
    req,      \* caller -> its indexedDB.open request: "none" | "pending" | "blocked" | "done"
    raced,    \* caller -> what Promise.race settled with
    ret,      \* caller -> the handle getSingletonDB returned (0: none)
    err,      \* caller -> the error getSingletonDB threw
    trouble   \* history: an open failed, was blocked or timed out, or a handle was closed from outside

connVars == <<db, state, live, pc, req, raced, ret, err, trouble>>

\* enum IDBDatabaseState, plus NONE for a handle that does not exist yet
IDBDatabaseState == {"OPEN", "CLOSING", "CLOSED"}

\* isActive(db): the state property is OPEN
isActiveOnce(h) == state[h] # "NONE"
isActive(h) == state[h] = "OPEN"

\* handles that exist
Opened == {h \in Handles : state[h] # "NONE"}

\* the handle the next successful open creates
NewHandle == Cardinality(Opened) + 1

\* the engine's count of open connections
OpenHandles == {h \in Handles : live[h]}

\* the overridden db.close(): CLOSING, originClose(), CLOSED
closed(st, h) == [st EXCEPT ![h] = "CLOSED"]

\* getSingletonDB's catch: a TimeoutError becomes DatabaseTimeoutError, anything else DatabaseError
CatchAll(e) == "DatabaseError"
Catch(e) == IF e = "TimeoutError" THEN "DatabaseTimeoutError" ELSE "DatabaseError"

InitConn ==
    /\ db = 0
    /\ state = [h \in Handles |-> "NONE"]
    /\ live = [h \in Handles |-> FALSE]
    /\ pc = [c \in Callers |-> "idle"]
    /\ req = [c \in Callers |-> "none"]
    /\ raced = [c \in Callers |-> "none"]
    /\ ret = [c \in Callers |-> 0]
    /\ err = [c \in Callers |-> "none"]
    /\ trouble = FALSE

\* getSingletonDB up to its await: return the active db, or clear it and start the race
acquire(c) ==
    /\ pc[c] = "idle"
    /\ req[c] = "none"
    /\ IF db # 0 /\ isActive(db)
       THEN /\ pc' = [pc EXCEPT ![c] = "resolved"]
            /\ ret' = [ret EXCEPT ![c] = db]
            /\ UNCHANGED <<db, req>>
       ELSE /\ db' = 0
            /\ req' = [req EXCEPT ![c] = "pending"]
            /\ pc' = [pc EXCEPT ![c] = "racing"]
            /\ UNCHANGED ret
    /\ UNCHANGED <<state, live, raced, err, trouble>>

\* the duplicate check after the await: keep the current db when it is active
keepNever(h) == FALSE
keepCurrent(h) == db # 0 /\ isActive(db)

\* request.onsuccess of open(), then getSingletonDB's continuation when the race is still pending
onsuccess(c) ==
    /\ req[c] \in {"pending", "blocked"}
    /\ NewHandle <= MaxHandles
    /\ LET h == NewHandle
           st == [state EXCEPT ![h] = "OPEN"]
       IN  /\ req' = [req EXCEPT ![c] = "done"]
           /\ IF pc[c] = "racing"
              THEN /\ raced' = [raced EXCEPT ![c] = "db"]
                   /\ pc' = [pc EXCEPT ![c] = "resolved"]
                   /\ IF keepCurrent(h)
                      THEN /\ state' = closed(st, h)
                           /\ live' = live
                           /\ db' = db
                      ELSE /\ state' = st
                           /\ live' = [live EXCEPT ![h] = TRUE]
                           /\ db' = h
                   /\ ret' = [ret EXCEPT ![c] = db']
              ELSE /\ state' = st
                   /\ live' = [live EXCEPT ![h] = TRUE]
                   /\ UNCHANGED <<raced, pc, db, ret>>
    /\ UNCHANGED <<err, trouble>>

\* request.onerror of open(): reject(request.error)
onerror(c) ==
    /\ req[c] \in {"pending", "blocked"}
    /\ req' = [req EXCEPT ![c] = "done"]
    /\ IF pc[c] = "racing"
       THEN /\ raced' = [raced EXCEPT ![c] = "DOMException"]
            /\ pc' = [pc EXCEPT ![c] = "rejected"]
            /\ err' = [err EXCEPT ![c] = Catch("DOMException")]
       ELSE UNCHANGED <<raced, pc, err>>
    /\ trouble' = TRUE
    /\ UNCHANGED <<db, state, live, ret>>

\* request.onblocked of open(): reject(new DatabaseError('IDB Blocked')); the request stays pending
onblocked(c) ==
    /\ req[c] = "pending"
    /\ req' = [req EXCEPT ![c] = "blocked"]
    /\ IF pc[c] = "racing"
       THEN /\ raced' = [raced EXCEPT ![c] = "IDB Blocked"]
            /\ pc' = [pc EXCEPT ![c] = "rejected"]
            /\ err' = [err EXCEPT ![c] = Catch("IDB Blocked")]
       ELSE UNCHANGED <<raced, pc, err>>
    /\ trouble' = TRUE
    /\ UNCHANGED <<db, state, live, ret>>

\* the setTimeout callback of timeout(OPEN_DB_TIMEOUT) fires while the race is pending
timeout(c) ==
    /\ pc[c] = "racing"
    /\ raced' = [raced EXCEPT ![c] = "TimeoutError"]
    /\ pc' = [pc EXCEPT ![c] = "rejected"]
    /\ err' = [err EXCEPT ![c] = Catch("TimeoutError")]
    /\ trouble' = TRUE
    /\ UNCHANGED <<db, state, live, req, ret>>

\* the engine's close event on a handle (connection lost): the listener sets CLOSED
dbclosed(h) ==
    /\ live[h]
    /\ live' = [live EXCEPT ![h] = FALSE]
    /\ state' = [state EXCEPT ![h] = "CLOSED"]
    /\ trouble' = TRUE
    /\ UNCHANGED <<db, pc, req, raced, ret, err>>

\* db.close() called on a handle by a bridge listener (request.transaction.db.close(), tx.db.close())
closedb(h) ==
    /\ state[h] # "NONE"
    /\ state' = closed(state, h)
    /\ live' = [live EXCEPT ![h] = FALSE]
    /\ trouble' = TRUE
    /\ UNCHANGED <<db, pc, req, raced, ret, err>>

\* a caller whose call settled comes back for another call
again(c) ==
    /\ pc[c] \in {"resolved", "rejected"}
    /\ pc' = [pc EXCEPT ![c] = "idle"]
    /\ req' = [req EXCEPT ![c] = IF req[c] = "done" THEN "none" ELSE req[c]]
    /\ raced' = [raced EXCEPT ![c] = "none"]
    /\ ret' = [ret EXCEPT ![c] = 0]
    /\ err' = [err EXCEPT ![c] = "none"]
    /\ UNCHANGED <<db, state, live, trouble>>

(***************************************************************************)
(* The image_map store, its transaction and the caller of the upsert API   *)
(***************************************************************************)
\* records a batch may hold
MaxBatch == 2
\* calls of the upsert / query API in one run
MaxCalls == 2
\* requests the engine fails, or transactions it aborts, on its own account in one run
MaxFaults == 1

\* undefined (an absent id, row or col)
Nil == -1
\* const DATABASE_VERSION = 1
DATABASE_VERSION == 1
Rows == {0, 1}
Cols == {0}
Datas == {1, 2}
\* ids a candidate may carry: none, 0, or the first id the key generator gives out
CandIds == {Nil, 0, 1}
\* a candidate with its (row, col) complete
Complete ==
    {[id |-> i, row |-> r, col |-> c, data |-> d] : i \in CandIds, r \in Rows, c \in Cols, d \in Datas}
\* a candidate with row or col absent: it is never written, so one id and one payload do
Incomplete == {[id |-> Nil, row |-> Nil, col |-> 0, data |-> 1], [id |-> Nil, row |-> 0, col |-> Nil, data |-> 1]}
Candidates == Complete \cup Incomplete
Batches == UNION {[1..n -> Candidates] : n \in 0..MaxBatch}
\* QueryParam {row?, col?} of getImageMaps, in the shape of a candidate
Queries == {[id |-> Nil, row |-> r, col |-> c, data |-> 1] : r \in Rows, c \in Cols} \cup Incomplete
NoRec == [id |-> Nil, row |-> Nil, col |-> Nil, data |-> 0]
Strategies == {"setImageMap", "setImageMap2", "setImageMap3"}
InjectedErrors == {"InvalidStateError", "UnknownError"}

VARIABLES
    store,    \* committed records of image_map
    keyGen,   \* committed current number of the store's key generator
    txState,  \* "none" | "active" | "committed" | "aborted"
    txDb,     \* the handle the transaction was created on
    wstore,   \* the records as the running transaction sees them
    wgen,     \* the key generator as the running transaction sees it
    queue,    \* the transaction's requests not yet processed, in order
    strat,    \* the API function the caller is in
    batch,    \* its imageMaps (for getImageMaps: the one query)
    callPc,   \* "idle" | "acquire" | "lookup" | "awaitTx" | "awaitAll" | "done"
    idx,      \* the loop's current candidate (setImageMap, setImageMap2)
    p,        \* the promise of transaction2promise: "none" | "pending" | "resolved" | an error
    outcome,  \* how the call settled: "none" | "ok" | an error
    result,   \* what getImageMaps resolved with
    found,    \* history: candidate -> the record its lookup returned (NoRec: none or not yet)
    issued,   \* history: candidate -> the write issued for it: "none" | "add" | "put" | "delete+add"
    store0,   \* history: the committed records when the call was made
    cause,    \* history: why the transaction aborted: "none" | the failed request's error | "engine"
    failed,   \* history: the errors the transaction's requests failed with
    calls,    \* calls made so far
    faults    \* faults injected so far

txVars == <<store, keyGen, txState, txDb, wstore, wgen, queue>>
callVars == <<strat, batch, callPc, idx, p, outcome, result, found, issued, store0, cause, failed, calls, faults>>

\* the database the engine keeps under the name DATABASE, and what became of the opens of it
VARIABLES
    schema,   \* its version (0: lower than DATABASE_VERSION), whether image_map exists, whether idx_row_col does
    boot      \* history: open sequences ended, creations of something existing, the schema at first, and after the first sequence

bootVars == <<schema, boot>>

vars == <<connVars, txVars, callVars, bootVars>>

(***************************************************************************)
(* StoreEngine: what the object store does with one request               *)
(***************************************************************************)
\* createIndex('idx_row_col', ['row', 'col'], { unique: true })
IndexNotUnique == FALSE
IndexUnique == TRUE

RECURSIVE SortById(_)
SortById(S) ==
    IF S = {} THEN <<>>
    ELSE LET m == CHOOSE r \in S : \A q \in S : r.id <= q.id
         IN  <<m>> \o SortById(S \ {m})

\* store.index('idx_row_col').getAll(IDBKeyRange.only([row, col]))
IndexGetAll(s, row, col) == SortById({r \in s : r.row = row /\ r.col = col})

\* the key a record is stored under: its id, or the generator's current number
KeyOf(rec, g) == IF rec.id = Nil THEN g ELSE rec.id
\* the generator after storing rec
GenAfter(rec, g) == IF rec.id = Nil THEN g + 1 ELSE IF rec.id >= g THEN rec.id + 1 ELSE g
\* another record holds rec's (row, col) in the unique index
Clash(s, rec, key) ==
    IndexUnique /\ \E r \in s : r.id # key /\ r.row = rec.row /\ r.col = rec.col

\* the effect of request r on records s and generator g
Exec(r, s, g) ==
    LET key == KeyOf(r.rec, g)
        rec == [r.rec EXCEPT !.id = key]
    IN  CASE r.op = "getAll" ->
               [ok |-> TRUE, s |-> s, g |-> g, res |-> IndexGetAll(s, r.rec.row, r.rec.col)]
          [] r.op = "delete" ->
               [ok |-> TRUE, s |-> {q \in s : q.id # r.rec.id}, g |-> g, res |-> <<>>]
          [] r.op = "add" ->
               IF (\E q \in s : q.id = key) \/ Clash(s, rec, key)
               THEN [ok |-> FALSE, s |-> s, g |-> g, res |-> <<>>]
               ELSE [ok |-> TRUE, s |-> s \cup {rec}, g |-> GenAfter(r.rec, g), res |-> <<>>]
          [] r.op = "put" ->
               IF Clash(s, rec, key)
               THEN [ok |-> FALSE, s |-> s, g |-> g, res |-> <<>>]
               ELSE [ok |-> TRUE, s |-> {q \in s : q.id # key} \cup {rec},
                     g |-> GenAfter(r.rec, g), res |-> <<>>]

Req(op, k, rec) == [op |-> op, k |-> k, rec |-> rec]

(***************************************************************************)
(* The caller's side of one call, as a record the listeners transform:     *)
(* callPc, outcome, p, idx, queue, found, issued, result as the variables, *)
(* and hclose: a listener called db.close() on the transaction's handle.   *)
(***************************************************************************)
Fresh(b) ==
    [callPc |-> "idle", outcome |-> "none", p |-> "none", idx |-> 0, queue |-> <<>>,
     found |-> [k \in 1..Len(b) |-> NoRec], issued |-> [k \in 1..Len(b) |-> "none"],
     result |-> <<>>, hclose |-> FALSE]

Cur ==
    [callPc |-> callPc, outcome |-> outcome, p |-> p, idx |-> idx, queue |-> queue,
     found |-> found, issued |-> issued, result |-> result, hclose |-> FALSE]

isNil(v) == v = Nil

\* a promise settles once: a later resolve or reject changes nothing
settle(pv, v) == IF pv = "pending" THEN v ELSE pv

\* the caller's pending promise rejects with e / resolves
Reject(cs, e) == IF cs.outcome = "none" THEN [cs EXCEPT !.outcome = e, !.callPc = "done"] ELSE cs
Resolve(cs) == IF cs.outcome = "none" THEN [cs EXCEPT !.outcome = "ok", !.callPc = "done"] ELSE cs

\* getImageMaps's key check: both row and col are given
hasIndex(q) == ~isNil(q.row) /\ ~isNil(q.col)

\* `await getImageMaps({row, col}, {transaction: tx})` for candidate k: issue the lookup or throw
getImageMaps(b, cs, k) ==
    IF hasIndex(b[k])
    THEN [cs EXCEPT !.queue = Append(@, Req("getAll", k, b[k])), !.callPc = "lookup", !.idx = k]
    ELSE Reject(cs, "DatabaseIndexError")

\* transaction2promise(tx): the complete, error and abort listeners are registered
transaction2promise(cs) == [cs EXCEPT !.p = "pending", !.callPc = "awaitTx"]

\* the for loop of setImageMap and setImageMap2 from candidate k on, up to its next await
loop(b, cs, k) == IF k > Len(b) THEN transaction2promise(cs) ELSE getImageMaps(b, cs, k)

\* imageMaps.map(...) of setImageMap3 from candidate k on: every lookup is issued at once
RECURSIVE tasks(_, _, _)
tasks(b, cs, k) ==
    IF k > Len(b) THEN cs
    ELSE tasks(b,
               IF hasIndex(b[k])
               THEN [cs EXCEPT !.queue = Append(@, Req("getAll", k, b[k]))]
               ELSE Reject(cs, "DatabaseIndexError"),
               k + 1)

\* `_imageMap.id` used as a condition
truthy(id) == id # 0

\* setImageMap: delete the match by its id, then add the candidate
write1AsPut(b, cs, k, res) ==
    IF Len(res) > 0 /\ res[1].id # 0
    THEN [cs EXCEPT !.queue = Append(@, [op |-> "put", k |-> k, rec |-> [b[k] EXCEPT !.id = res[1].id]]),
                    !.issued[k] = "delete+add"]
    ELSE [cs EXCEPT !.queue = Append(@, [op |-> "add", k |-> k, rec |-> b[k]]), !.issued[k] = "add"]
write1(b, cs, k, res) ==
    IF Len(res) > 0 /\ truthy(res[1].id)
    THEN [cs EXCEPT !.queue = @ \o <<Req("delete", k, res[1]), Req("add", k, b[k])>>,
                    !.issued[k] = "delete+add"]
    ELSE [cs EXCEPT !.queue = Append(@, Req("add", k, b[k])), !.issued[k] = "add"]

\* setImageMap2: put the candidate under the match's id, or add it
write2Stale(b, cs, k, res) ==
    IF Len(res) > 0
    THEN [cs EXCEPT !.queue = Append(@, [op |-> "put", k |-> k, rec |-> res[1]]),
                    !.issued[k] = "put"]
    ELSE [cs EXCEPT !.queue = Append(@, [op |-> "add", k |-> k, rec |-> b[k]]), !.issued[k] = "add"]
write2(b, cs, k, res) ==
    IF Len(res) > 0
    THEN [cs EXCEPT !.queue = Append(@, Req("put", k, [b[k] EXCEPT !.id = res[1].id])),
                    !.issued[k] = "put"]
    ELSE [cs EXCEPT !.queue = Append(@, Req("add", k, b[k])), !.issued[k] = "add"]

\* setImageMap3: put the candidate under the match's id when the match has one, or add it
write3(b, cs, k, res) ==
    IF Len(res) > 0 /\ truthy(res[1].id)
    THEN [cs EXCEPT !.queue = Append(@, Req("put", k, [b[k] EXCEPT !.id = res[1].id])),
                    !.issued[k] = "put"]
    ELSE [cs EXCEPT !.queue = Append(@, Req("add", k, b[k])), !.issued[k] = "add"]

\* the success listener of request2promise for candidate k's lookup, and what awaits it
onLookup(s, b, cs, k, res) ==
    LET c1 == [cs EXCEPT !.found[k] = IF Len(res) > 0 THEN res[1] ELSE NoRec]
    IN  CASE s = "setImageMap" -> loop(b, write1(b, c1, k, res), k + 1)
          [] s = "setImageMap2" -> loop(b, write2(b, c1, k, res), k + 1)
          [] s = "setImageMap3" -> write3(b, c1, k, res)
          [] s = "getImageMaps" -> Resolve([c1 EXCEPT !.result = res])

\* the error listener of request2promise
request2promiseError(cs, e) ==
    Reject(IF e = "InvalidStateError" THEN [cs EXCEPT !.hclose = TRUE] ELSE cs, e)

\* the promise p settles with v; what awaits it (the call, or its Promise.all) follows
settled(cs, v) ==
    LET c1 == [cs EXCEPT !.p = settle(@, v)]
    IN  IF cs.p # "pending" THEN c1
        ELSE IF v = "resolved" THEN Resolve(c1) ELSE Reject(c1, v)

\* the error listener of transaction2promise (registered once p exists)
transaction2promiseAsAbort(cs, e) ==
    IF cs.p = "none" THEN cs
    ELSE settled(IF e = "InvalidStateError" THEN [cs EXCEPT !.hclose = TRUE] ELSE cs,
                 "Transaction aborted")
transaction2promiseError(cs, e) ==
    IF cs.p = "none" THEN cs
    ELSE settled(IF e = "InvalidStateError" THEN [cs EXCEPT !.hclose = TRUE] ELSE cs, e)

\* the abort listener of transaction2promise
noAbortListener(cs) == cs
transaction2promiseAbort(cs) ==
    IF cs.p = "none" THEN cs ELSE settled(cs, "Transaction aborted")

\* the complete listener of transaction2promise
transaction2promiseComplete(cs) ==
    IF cs.p = "none" THEN cs ELSE settled(cs, "resolved")

\* an error event at request r: its own listener (lookups only), then the transaction's
errorEvent(cs, r, e) ==
    transaction2promiseError(IF r.op = "getAll" THEN request2promiseError(cs, e) ELSE cs, e)

\* the transaction aborts: every request left gets an AbortError event, then the abort event fires
RECURSIVE abortRequests(_, _)
abortRequests(cs, q) ==
    IF q = <<>> THEN cs ELSE abortRequests(errorEvent(cs, Head(q), "AbortError"), Tail(q))

abortEvents(cs, q) == transaction2promiseAbort(abortRequests([cs EXCEPT !.queue = <<>>], q))

\* what beginTransaction's caller does with the transaction, up to its first await
begin(s, b) ==
    CASE s \in {"setImageMap", "setImageMap2"} -> loop(b, Fresh(b), 1)
      [] s = "setImageMap3" ->
           LET c1 == [tasks(b, Fresh(b), 1) EXCEPT !.p = "pending"]
           IN  [c1 EXCEPT !.callPc = IF c1.outcome = "none" THEN "awaitAll" ELSE "done"]
      [] s = "getImageMaps" -> getImageMaps(b, Fresh(b), 1)

\* the variables take the caller's side cs
Apply(cs) ==
    /\ callPc' = cs.callPc
    /\ outcome' = cs.outcome
    /\ p' = cs.p
    /\ idx' = cs.idx
    /\ queue' = cs.queue
    /\ found' = cs.found
    /\ issued' = cs.issued
    /\ result' = cs.result

\* db.transaction(storeNames, mode) on handle h, and the caller's first steps
beginTransaction(s, b, h) ==
    /\ txState' = "active"
    /\ txDb' = h
    /\ wstore' = store
    /\ wgen' = keyGen
    /\ Apply(begin(s, b))
    /\ UNCHANGED <<store, keyGen>>

InitStore ==
    /\ store = {}
    /\ keyGen = 1
    /\ txState = "none"
    /\ txDb = 0
    /\ wstore = {}
    /\ wgen = 1
    /\ queue = <<>>
    /\ strat = "none"
    /\ batch = <<>>
    /\ callPc = "idle"
    /\ idx = 0
    /\ p = "none"
    /\ outcome = "none"
    /\ result = <<>>
    /\ found = <<>>
    /\ issued = <<>>
    /\ store0 = {}
    /\ cause = "none"
    /\ failed = {}
    /\ calls = 0
    /\ faults = 0

\* the database as the first open has set it up: at DATABASE_VERSION, image_map and its index created
InitSchema ==
    /\ schema = [version |-> DATABASE_VERSION, table |-> TRUE, index |-> TRUE]
    /\ boot = [runs |-> 0, exists |-> {}, init |-> schema, first |-> <<>>]

Init == InitConn /\ InitStore /\ InitSchema

\* the caller of the current call
Caller == calls

\* a call of setImageMap, setImageMap2, setImageMap3 or getImageMaps: beginTransaction, getSingletonDB
Call(s, b) ==
    /\ callPc = "idle"
    /\ calls < MaxCalls
    /\ calls < NCallers
    /\ acquire(calls + 1)
    /\ calls' = calls + 1
    /\ strat' = s
    /\ batch' = b
    /\ store0' = store
    /\ cause' = "none"
    /\ failed' = {}
    /\ IF pc'[calls + 1] = "resolved"
       THEN beginTransaction(s, b, ret'[calls + 1])
       ELSE /\ Apply([Fresh(b) EXCEPT !.callPc = "acquire"])
            /\ txState' = "none"
            /\ UNCHANGED <<store, keyGen, txDb, wstore, wgen>>
    /\ UNCHANGED <<faults, bootVars>>

setImageMap == \E b \in Batches : Call("setImageMap", b)
setImageMap2 == \E b \in Batches : Call("setImageMap2", b)
setImageMap3 == \E b \in Batches : Call("setImageMap3", b)
query == \E q \in Queries : Call("getImageMaps", <<q>>)

\* the open of the current call succeeds: getSingletonDB returns and the transaction begins
opened ==
    /\ callPc = "acquire"
    /\ pc[Caller] = "racing"
    /\ onsuccess(Caller)
    /\ beginTransaction(strat, batch, ret'[Caller])
    /\ UNCHANGED <<strat, batch, store0, cause, failed, calls, faults, bootVars>>

\* the open of the current call fails, is blocked or times out: the call rejects with that error
openFailed ==
    /\ callPc = "acquire"
    /\ pc[Caller] = "racing"
    /\ \/ onerror(Caller)
       \/ onblocked(Caller)
       \/ timeout(Caller)
    /\ Apply(Reject(Cur, err'[Caller]))
    /\ UNCHANGED <<txVars, strat, batch, store0, cause, failed, calls, faults, bootVars>>

\* db.close() by a listener on the transaction's handle
Close(cs) ==
    IF cs.hclose
    THEN /\ state' = closed(state, txDb)
         /\ live' = [live EXCEPT ![txDb] = FALSE]
    ELSE UNCHANGED <<state, live>>

\* request r fails with e: its error event, then (nothing prevents the default) the abort
failPrevented(r, e) ==
    LET cs == errorEvent([Cur EXCEPT !.queue = Tail(queue)], r, e)
    IN  /\ Apply(cs)
        /\ Close(cs)
        /\ failed' = failed \cup {e}
        /\ UNCHANGED <<store, keyGen, txState, wstore, wgen, cause, txDb, strat, batch, store0,
                       calls, db, pc, req, raced, ret, err, trouble>>
fail(r, e) ==
    LET cs == abortEvents(errorEvent(Cur, r, e), Tail(queue))
    IN  /\ Apply(cs)
        /\ Close(cs)
        /\ txState' = "aborted"
        /\ wstore' = store
        /\ wgen' = keyGen
        /\ cause' = e
        /\ failed' = failed \cup {e}
        /\ UNCHANGED <<store, keyGen, txDb, strat, batch, store0, calls, db, pc, req, raced, ret, err, trouble>>

\* the engine processes the transaction's next request
request ==
    /\ txState = "active"
    /\ queue # <<>>
    /\ LET r == Head(queue)
           x == Exec(r, wstore, wgen)
       IN  IF x.ok
           THEN /\ wstore' = x.s
                /\ wgen' = x.g
                /\ Apply(IF r.op = "getAll"
                         THEN onLookup(strat, batch, [Cur EXCEPT !.queue = Tail(queue)], r.k, x.res)
                         ELSE [Cur EXCEPT !.queue = Tail(queue)])
                /\ UNCHANGED <<store, keyGen, txState, txDb, strat, batch, store0, cause, failed,
                               calls, connVars>>
           ELSE fail(r, "ConstraintError")
    /\ UNCHANGED <<faults, bootVars>>

\* the engine fails the transaction's next request on its own account
requestFault ==
    /\ txState = "active"
    /\ queue # <<>>
    /\ faults < MaxFaults
    /\ faults' = faults + 1
    /\ \E e \in InjectedErrors : fail(Head(queue), e)
    /\ UNCHANGED bootVars

\* every request is done: the transaction commits and its complete event fires
complete ==
    /\ txState = "active"
    /\ queue = <<>>
    /\ txState' = "committed"
    /\ store' = wstore
    /\ keyGen' = wgen
    /\ Apply(transaction2promiseComplete(Cur))
    /\ UNCHANGED <<txDb, wstore, wgen, strat, batch, store0, cause, failed, calls, faults, connVars, bootVars>>

\* the engine aborts the transaction on its own account (no request of it failed)
abort ==
    /\ txState = "active"
    /\ faults < MaxFaults
    /\ faults' = faults + 1
    /\ LET cs == abortEvents(Cur, queue)
       IN  /\ Apply(cs)
           /\ Close(cs)
    /\ txState' = "aborted"
    /\ wstore' = store
    /\ wgen' = keyGen
    /\ cause' = "engine"
    /\ UNCHANGED <<store, keyGen, txDb, strat, batch, store0, failed, calls, db, pc, req, raced, ret, err, trouble>>
    /\ UNCHANGED bootVars

\* the call has settled and its transaction is over: the caller goes on
return ==
    /\ callPc = "done"
    /\ txState # "active"
    /\ Apply(Fresh(<<>>))
    /\ strat' = "none"
    /\ batch' = <<>>
    /\ txState' = "none"
    /\ txDb' = 0
    /\ store0' = store
    /\ cause' = "none"
    /\ failed' = {}
    /\ UNCHANGED <<store, keyGen, wstore, wgen, calls, faults, connVars, bootVars>>

Next ==
    \/ setImageMap
    \/ setImageMap2
    \/ setImageMap3
    \/ query
    \/ opened
    \/ openFailed
    \/ request
    \/ requestFault
    \/ complete
    \/ abort
    \/ return

Spec == Init /\ [][Next]_vars

(***************************************************************************)
(* The connection manager alone, with concurrent callers                   *)
(***************************************************************************)
NextConn ==
    \/ \E c \in Callers : acquire(c) /\ UNCHANGED <<txVars, callVars, bootVars>>
    \/ \E c \in Callers : onsuccess(c) /\ UNCHANGED <<txVars, callVars, bootVars>>
    \/ \E c \in Callers : onerror(c) /\ UNCHANGED <<txVars, callVars, bootVars>>
    \/ \E c \in Callers : onblocked(c) /\ UNCHANGED <<txVars, callVars, bootVars>>
    \/ \E c \in Callers : timeout(c) /\ UNCHANGED <<txVars, callVars, bootVars>>
    \/ \E h \in Handles : dbclosed(h) /\ UNCHANGED <<txVars, callVars, bootVars>>
    \/ \E h \in Handles : closedb(h) /\ UNCHANGED <<txVars, callVars, bootVars>>
    \/ \E c \in Callers : again(c) /\ UNCHANGED <<txVars, callVars, bootVars>>

SpecConn == Init /\ [][NextConn]_vars

\* the timer of every pending race fires in the end (setTimeout)
LiveConn == SpecConn /\ \A c \in Callers : WF_vars(timeout(c) /\ UNCHANGED <<txVars, callVars, bootVars>>)

(***************************************************************************)
(* The connection manager with the close override statement by statement:  *)
(* db.close() runs to its end before anything else does, but every value   *)
(* it writes to the state property is a state of its own.                  *)
(***************************************************************************)
\* no db.close() is between its first and its last statement
NoClosing == \A h \in Handles : state[h] # "CLOSING"

\* db.close() is called on a handle by a bridge listener: state = CLOSING
closing(h) ==
    /\ NoClosing
    /\ state[h] # "NONE"
    /\ state' = [state EXCEPT ![h] = "CLOSING"]
    /\ UNCHANGED <<db, live, pc, req, raced, ret, err, trouble>>

\* the rest of db.close(): originClose(), state = CLOSED
originClose(h) ==
    /\ state[h] = "CLOSING"
    /\ live' = [live EXCEPT ![h] = FALSE]
    /\ state' = closed(state, h)
    /\ trouble' = TRUE
    /\ UNCHANGED <<db, pc, req, raced, ret, err>>

NextClose ==
    \/ \E c \in Callers : NoClosing /\ acquire(c) /\ UNCHANGED <<txVars, callVars, bootVars>>
    \/ \E c \in Callers : NoClosing /\ onsuccess(c) /\ UNCHANGED <<txVars, callVars, bootVars>>
    \/ \E c \in Callers : NoClosing /\ onerror(c) /\ UNCHANGED <<txVars, callVars, bootVars>>
    \/ \E c \in Callers : NoClosing /\ onblocked(c) /\ UNCHANGED <<txVars, callVars, bootVars>>
    \/ \E c \in Callers : NoClosing /\ timeout(c) /\ UNCHANGED <<txVars, callVars, bootVars>>
    \/ \E h \in Handles : NoClosing /\ dbclosed(h) /\ UNCHANGED <<txVars, callVars, bootVars>>
    \/ \E c \in Callers : NoClosing /\ again(c) /\ UNCHANGED <<txVars, callVars, bootVars>>
    \/ \E h \in Handles : closing(h) /\ UNCHANGED <<txVars, callVars, bootVars>>
    \/ \E h \in Handles : originClose(h) /\ UNCHANGED <<txVars, callVars, bootVars>>

SpecClose == Init /\ [][NextClose]_vars

(***************************************************************************)
(* The open sequence with its bootstrap (request.onupgradeneeded), from    *)
(* any database the engine may hold under the name DATABASE                *)
(***************************************************************************)
\* open sequences followed in one run
MaxBoots == 2

\* Version 0 is a version lower than DATABASE_VERSION: the engine runs the upgrade.
\* With DATABASE_VERSION = 1 the engine holds such a database only when it has just
\* created it; a table at version 0 stands for an upgrade over an existing table.
Schemas ==
    {sc \in [version : 0..DATABASE_VERSION, table : BOOLEAN, index : BOOLEAN] : sc.index => sc.table}

\* rows image_map may hold before the open; two of them have the same (row, col)
BootRows ==
    {[id |-> 1, row |-> 0, col |-> 0, data |-> 1],
     [id |-> 2, row |-> 0, col |-> 0, data |-> 2],
     [id |-> 3, row |-> 1, col |-> 0, data |-> 1]}

\* a unique index over (row, col) can be built on the rows s
IndexBuilds(s) == \A a, b \in s : (a.row = b.row /\ a.col = b.col) => a = b

\* the rows a database of schema sc may hold
StoredRows(sc) ==
    {s \in SUBSET BootRows : (~sc.table => s = {}) /\ (sc.index => IndexBuilds(s))}

\* db.createObjectStore('image_map', ...): fails when the store exists
createObjectStore(sc) ==
    [table |-> TRUE, index |-> FALSE,
     exists |-> sc.exists \cup (IF sc.table THEN {"table"} ELSE {})]

\* imageMapStore.createIndex('idx_row_col', ...): fails when the index exists
createIndex(sc) ==
    [sc EXCEPT !.index = TRUE, !.exists = @ \cup (IF sc.index THEN {"index"} ELSE {})]

\* request.onupgradeneeded: create the store unless objectStoreNames contains it, then
\* the index unless indexNames contains it
onupgradeneededAnew(sc) == createIndex(createObjectStore(sc))
onupgradeneeded(sc) ==
    LET s1 == IF ~sc.table THEN createObjectStore(sc) ELSE sc
    IN  IF ~s1.index THEN createIndex(s1) ELSE s1

\* an open sequence has ended: count it, and remember what the first one left
ended(b, sc, s) ==
    [b EXCEPT !.runs = @ + 1, !.first = IF b.runs = 0 THEN <<sc, s>> ELSE @]

\* the engine finds the database at a lower version: the upgradeneeded event, the handler,
\* and the end of the upgrade transaction; when it aborts the open request fails
upgradeneeded(c) ==
    /\ req[c] \in {"pending", "blocked"}
    /\ schema.version < DATABASE_VERSION
    /\ boot.runs < MaxBoots
    /\ LET r == onupgradeneeded([table |-> schema.table, index |-> schema.index, exists |-> {}])
           ok == r.exists = {} /\ ((r.index /\ ~schema.index) => IndexBuilds(store))
       IN  IF ok
           THEN /\ schema' = [version |-> DATABASE_VERSION, table |-> r.table, index |-> r.index]
                /\ boot' = boot
                /\ UNCHANGED connVars
           ELSE /\ onerror(c)
                /\ schema' = schema
                /\ boot' = ended([boot EXCEPT !.exists = @ \cup r.exists], schema, store)
    /\ UNCHANGED <<txVars, callVars>>

\* the database is at DATABASE_VERSION: request.onsuccess ends the open sequence
success(c) ==
    /\ schema.version = DATABASE_VERSION
    /\ boot.runs < MaxBoots
    /\ onsuccess(c)
    /\ boot' = ended(boot, schema, store)
    /\ UNCHANGED <<schema, txVars, callVars>>

InitBoot ==
    /\ InitConn
    /\ schema \in Schemas
    /\ store \in StoredRows(schema)
    /\ boot = [runs |-> 0, exists |-> {}, init |-> schema, first |-> <<>>]
    /\ store0 = store
    /\ wstore = store
    /\ keyGen = Cardinality(BootRows) + 1
    /\ wgen = keyGen
    /\ txState = "none"
    /\ txDb = 0
    /\ queue = <<>>
    /\ strat = "none"
    /\ batch = <<>>
    /\ callPc = "idle"
    /\ idx = 0
    /\ p = "none"
    /\ outcome = "none"
    /\ result = <<>>
    /\ found = <<>>
    /\ issued = <<>>
    /\ cause = "none"
    /\ failed = {}
    /\ calls = 0
    /\ faults = 0

NextBoot ==
    \/ \E c \in Callers : acquire(c) /\ UNCHANGED <<txVars, callVars, bootVars>>
    \/ \E c \in Callers : upgradeneeded(c)
    \/ \E c \in Callers : success(c)
    \/ \E h \in Handles : dbclosed(h) /\ UNCHANGED <<txVars, callVars, bootVars>>
    \/ \E c \in Callers : again(c) /\ UNCHANGED <<txVars, callVars, bootVars>>

SpecBoot == InitBoot /\ [][NextBoot]_vars

(***************************************************************************)
(* Properties                                                              *)
(***************************************************************************)
SameKey(a, b) == a.row = b.row /\ a.col = b.col

\* the last candidate of the batch with candidate k's (row, col)
Last(k) ==
    CHOOSE j \in DOMAIN batch :
        /\ SameKey(batch[j], batch[k])
        /\ \A i \in DOMAIN batch : SameKey(batch[i], batch[k]) => i <= j

\* every candidate of the batch has its row and col
WellKeyed == \A k \in DOMAIN batch : hasIndex(batch[k])

\* an upsert call has settled and its transaction is over
UpsertOver == strat \in Strategies /\ callPc = "done" /\ txState \in {"committed", "aborted"}

\* C1: when concurrent getSingletonDB calls have all settled, none having failed,
\* been blocked or timed out and no handle having been closed from outside, exactly
\* one handle is open, it is the singleton, every caller got it, and every other
\* handle that was opened is closed.
C1_SingleSession ==
    (/\ ~trouble
     /\ \A c \in Callers : pc[c] # "racing"
     /\ \E c \in Callers : pc[c] = "resolved")
    => /\ Cardinality(OpenHandles) = 1
       /\ OpenHandles = {db}
       /\ \A c \in Callers : pc[c] = "resolved" => ret[c] = db
       /\ \A h \in Opened \ {db} : state[h] = "CLOSED" /\ ~live[h]

\* every caller raced an open of its own, all settled: a duplicate was opened and closed
C1_Witness ==
    /\ ~trouble
    /\ \A c \in Callers : pc[c] = "resolved" /\ raced[c] = "db"
    /\ Cardinality(Opened) = NCallers

\* C2: a race the timer wins rejects getSingletonDB with DatabaseTimeoutError, and only
\* such a race does (an open error or a blocked open gives DatabaseError); and every
\* call that is racing settles in the end.
C2_Timeout ==
    /\ [](\A c \in Callers :
            /\ raced[c] = "TimeoutError" => pc[c] = "rejected" /\ err[c] = "DatabaseTimeoutError"
            /\ raced[c] \in {"DOMException", "IDB Blocked"} =>
                   pc[c] = "rejected" /\ err[c] = "DatabaseError")
    /\ \A c \in Callers : (pc[c] = "racing") ~> (pc[c] # "racing")

\* the timer won a race whose open request is still pending
C2_Witness ==
    \E c \in Callers : raced[c] = "TimeoutError" /\ req[c] = "pending" /\ err[c] = "DatabaseTimeoutError"

\* C3: once a request of a transaction has failed with InvalidStateError, the
\* transaction's handle is closed (so the next getSingletonDB opens a new one).
C3_SelfHealing ==
    (txState # "none" /\ WellKeyed /\ "InvalidStateError" \in failed) => state[txDb] = "CLOSED"

\* C4: an upsert whose transaction aborted, or a request of which failed, leaves the
\* committed records as they were when the call was made.
C4_Atomicity ==
    (strat \in Strategies /\ (txState = "aborted" \/ failed # {})) => store = store0

\* the first candidate's write was done in the transaction before a later write failed
C4_Witness ==
    /\ strat \in Strategies
    /\ txState = "aborted"
    /\ cause = "ConstraintError"
    /\ Len(batch) = 2
    /\ issued[1] # "none"
    /\ issued[2] # "none"
    /\ strat # "setImageMap3"

\* no two records of s have the same (row, col)
UniqueKeys(s) == \A a, b \in s : SameKey(a, b) => a = b

\* C5: the committed records, and the records any running transaction sees, hold at
\* most one record per (row, col).
C5_Uniqueness == UniqueKeys(store) /\ UniqueKeys(wstore)

\* a batch that repeats a (row, col) was refused by the index, after an upsert that stored a record
C5_Witness ==
    /\ strat = "setImageMap3"
    /\ txState = "aborted"
    /\ cause = "ConstraintError"
    /\ Len(batch) = 2
    /\ SameKey(batch[1], batch[2])
    /\ store # {}

\* C6: after an upsert call that succeeded, the index lookup of each candidate's
\* (row, col) returns exactly one record, with the payload of the last candidate of
\* the batch for that (row, col).
C6_InsertOrReplace ==
    (strat \in Strategies /\ outcome = "ok") =>
        \A k \in DOMAIN batch :
            LET res == IndexGetAll(store, batch[k].row, batch[k].col)
            IN  Len(res) = 1 /\ res[1].data = batch[Last(k)].data

\* B1 was stored, and an upsert of B2 for the same (row, col) succeeded
C6_Witness ==
    /\ strat \in Strategies
    /\ outcome = "ok"
    /\ \E k \in DOMAIN batch : \E r \in store0 : SameKey(r, batch[k]) /\ r.data # batch[k].data

\* every candidate's (row, col) was in the table when the call was made
AllExisted == \A k \in DOMAIN batch : \E r \in store0 : SameKey(r, batch[k])

\* C7: an upsert by setImageMap2 or setImageMap3 of candidates whose (row, col) all
\* exist, which the engine does not disturb, leaves for each of them the record with
\* the id it had and the payload of the (last) candidate.
C7_ReplaceKeepsIdentity ==
    (/\ strat \in {"setImageMap2", "setImageMap3"}
     /\ callPc = "done"
     /\ txState \in {"committed", "aborted"}
     /\ cause \notin InjectedErrors \cup {"engine"}
     /\ AllExisted)
    => \A k \in DOMAIN batch : \A r \in store0 :
           SameKey(r, batch[k]) =>
               \E q \in store : q.id = r.id /\ SameKey(q, r) /\ q.data = batch[Last(k)].data

\* C8 as stated: after a successful setImageMap of a candidate whose (row, col)
\* existed, the record of that (row, col) has another id than before.
C8_IdChanges ==
    (strat = "setImageMap" /\ outcome = "ok") =>
        \A k \in DOMAIN batch : \A r \in store0 : \A q \in store :
            (SameKey(r, batch[k]) /\ SameKey(q, r)) => q.id # r.id

\* C8 amended: after a successful setImageMap of a candidate whose (row, col) existed,
\* the existing row was deleted by its id and the candidate added; the record's id is
\* the (last) candidate's own id when it carries one, and otherwise a newly generated
\* id, different from the id before and from every id the table held.
C8_DeleteThenInsert ==
    (strat = "setImageMap" /\ outcome = "ok") =>
        \A k \in DOMAIN batch : \A r \in store0 : \A q \in store :
            (SameKey(r, batch[k]) /\ SameKey(q, r)) =>
                /\ issued[k] = "delete+add"
                /\ IF batch[Last(k)].id # Nil
                   THEN q.id = batch[Last(k)].id
                   ELSE q.id # r.id /\ \A o \in store0 : o.id # q.id

\* a candidate without an id replaced a stored record
C8_Witness ==
    /\ strat = "setImageMap"
    /\ outcome = "ok"
    /\ \E k \in DOMAIN batch : \E r \in store0 : SameKey(r, batch[k]) /\ batch[k].id = Nil

\* C9: the promise of transaction2promise is resolved only for a committed
\* transaction; once the transaction has committed it is resolved, once it has
\* aborted it is rejected (never left pending); and once settled it does not change.
C9_SettlesOnce ==
    /\ [](/\ p = "resolved" => txState = "committed"
          /\ (p # "none" /\ txState = "committed") => p = "resolved"
          /\ (p # "none" /\ txState = "aborted") => p \notin {"pending", "resolved"})
    /\ [][(p \notin {"none", "pending"} /\ p' # "none") => p' = p]_vars

\* the transaction aborted with no request left and the promise rejected
C9_Witness == txState = "aborted" /\ p = "Transaction aborted"

\* C10 as stated: an upsert whose transaction aborted, by the engine or by a violated
\* uniqueness constraint, rejects with the 'Transaction aborted' error.
C10_ReportedAborted ==
    (UpsertOver /\ WellKeyed /\ txState = "aborted" /\ cause \in {"engine", "ConstraintError"})
    => outcome = "Transaction aborted"

\* C10 amended: such an upsert rejects; with 'Transaction aborted' only when the engine
\* aborted the transaction and no request error reached a listener first; a violated
\* uniqueness constraint is reported as the write's ConstraintError (always so in
\* setImageMap3) or, in setImageMap and setImageMap2, as the AbortError of the pending lookup.
C10_ReportedError ==
    (UpsertOver /\ WellKeyed /\ txState = "aborted" /\ cause \in {"engine", "ConstraintError"})
    => /\ outcome \in {"Transaction aborted", "ConstraintError", "AbortError"}
       /\ outcome = "Transaction aborted" => cause = "engine"
       /\ outcome = "ConstraintError" => cause = "ConstraintError"
       /\ (cause = "ConstraintError" /\ strat = "setImageMap3") => outcome = "ConstraintError"

\* a write violated the unique index and the call rejected with its ConstraintError
C10_Witness ==
    /\ UpsertOver
    /\ txState = "aborted"
    /\ cause = "ConstraintError"
    /\ outcome = "ConstraintError"

\* C11: a getSingletonDB call whose open was reported blocked rejects with an error of
\* another kind than the error of a timed-out open and than the error of a failed open.
C11_BlockedDistinct ==
    \A c \in Callers :
        raced[c] = "IDB Blocked" =>
            /\ pc[c] = "rejected"
            /\ err[c] # Catch("TimeoutError")
            /\ err[c] # Catch("DOMException")

\* C12: getSingletonDB returns without opening exactly when the current db's state is
\* OPEN at that moment, and otherwise starts an open; every handle it returns is OPEN
\* (and is a handle) when returned; so a handle closed by the engine's close event or
\* by a bridge listener is never returned again.
C12_LivenessRederived ==
    [][\A c \in Callers :
          /\ (pc[c] = "idle" /\ pc'[c] # "idle") =>
                 IF db # 0 /\ state[db] = "OPEN"
                 THEN pc'[c] = "resolved" /\ ret'[c] = db
                 ELSE pc'[c] = "racing" /\ req'[c] = "pending" /\ ret'[c] = 0
          /\ (pc[c] # "resolved" /\ pc'[c] = "resolved") =>
                 /\ ret'[c] \in Handles
                 /\ state'[ret'[c]] = "OPEN"
                 /\ live'[ret'[c]]
                 /\ state[ret'[c]] # "CLOSED"]_vars

\* the first handle was current and was closed; a later call opened and got the second
C12_Witness ==
    /\ state[1] = "CLOSED"
    /\ db = 2
    /\ \E c \in Callers : pc[c] = "resolved" /\ raced[c] = "db" /\ ret[c] = 2

\* C13: a getImageMaps call with row or col absent rejects with DatabaseIndexError,
\* whatever the connection manager did (returned the open db, opened one, or failed to
\* open), alone or inside an upsert's transaction; and no lookup with an incomplete
\* key is ever issued.
C13_MissingIndex ==
    /\ (strat = "getImageMaps" /\ callPc = "done" /\ ~hasIndex(batch[1])) =>
           outcome = "DatabaseIndexError"
    /\ \A i \in DOMAIN queue : queue[i].op = "getAll" => hasIndex(queue[i].rec)

\* C15: an upsert call that rejected, for whatever reason, and whose transaction is
\* over, leaves the committed records as they were when the call was made.
C15_AllOrNothing ==
    (strat \in Strategies /\ callPc = "done" /\ outcome # "ok" /\ txState # "active") =>
        store = store0

\* C16: while the current db is OPEN no step replaces or clears it; and a handle whose
\* open succeeds while the current db is OPEN is closed in that same step (it is
\* neither left open nor made current).
C16_CurrentKept ==
    [][/\ (db # 0 /\ state[db] = "OPEN") => db' = db
       /\ \A h \in Handles :
             (state[h] = "NONE" /\ state'[h] # "NONE" /\ db # 0 /\ state[db] = "OPEN") =>
                 state'[h] = "CLOSED" /\ ~live'[h]]_vars

\* C17: once no getSingletonDB call is waiting for its race, every handle the engine
\* holds open is the current db: no open handle is left that the manager does not
\* reference, also when its open succeeded after the call had timed out or been blocked.
C17_NoLeak ==
    (\A c \in Callers : pc[c] # "racing") => \A h \in OpenHandles : h = db

\* C18: at most one indexedDB.open request started by getSingletonDB is pending at any moment.
C18_SingleFlight ==
    Cardinality({c \in Callers : req[c] \in {"pending", "blocked"}}) <= 1

\* C19: the write for a candidate is issued in the step in which that candidate's own
\* lookup completes, never before, and it is the write that lookup's result calls for:
\* an add when the lookup found no record of the candidate's (row, col), and otherwise
\* the replace (put; in setImageMap the delete, then the add).
C19_CausalOrder ==
    [][\A k \in DOMAIN issued \cap DOMAIN issued' :
          (txState = "active" /\ issued[k] = "none" /\ issued'[k] # "none") =>
              /\ queue # <<>>
              /\ Head(queue).op = "getAll"
              /\ Head(queue).k = k
              /\ LET res == IndexGetAll(wstore, batch[k].row, batch[k].col)
                 IN  issued'[k] = IF res = <<>> THEN "add"
                                  ELSE IF strat = "setImageMap" THEN "delete+add"
                                  ELSE "put"]_vars

\* how far along NONE -> OPEN -> CLOSING -> CLOSED a state is
Rank(st) == CASE st = "NONE" -> 0 [] st = "OPEN" -> 1 [] st = "CLOSING" -> 2 [] st = "CLOSED" -> 3

\* C20: no write to a handle's state property moves it back: not from CLOSED to
\* CLOSING or OPEN, nor from CLOSING to OPEN, whatever db.close() calls (also repeated
\* on one handle) and engine close events occur.
C20_ForwardOnly ==
    [][\A h \in Handles : Rank(state'[h]) >= Rank(state[h])]_vars

=============================================================================
